---- MODULE Spec2Model ----
(***************************************************************************)
(* Model of website/app.js: the municipal issue-reporting client.          *)
(* The page is a single event loop; every action below is one event        *)
(* handler run to its next suspension point (await / callback), or one     *)
(* continuation resumed by the completion of an asynchronous operation.    *)
(*                                                                         *)
(* Text (DOM strings, identifiers, MIME types) is a sequence of            *)
(* one-character strings, so that formatting and prefix tests are          *)
(* computed rather than assumed.  A nullable JavaScript value is a set     *)
(* with at most one element: {} is null/undefined, {v} is the value v.     *)
(* A coordinate component is an integer count of 1e-7 degrees, one         *)
(* decimal more than the location field displays.                          *)
(***************************************************************************)
EXTENDS Integers, Sequences, FiniteSets, TLC

(***************************************************************************)
(* Bounds of the model.                                                    *)
(***************************************************************************)
\* submit events handled in one run
MaxSubmits == 2
\* FileReader loads outstanding at one time
MaxReads == 2
\* searches that issued a request in one run
MaxSearches == 2
\* asynchronous operations under way or answered in one run of SpecFrame
MaxFrameBusy == 1

Null == {}
Some(v) == {v}
The(s) == CHOOSE v \in s : TRUE

(***************************************************************************)
(* Text helpers.                                                           *)
(***************************************************************************)
DigitChars == <<"0", "1", "2", "3", "4", "5", "6", "7", "8", "9">>

RECURSIVE Digits(_)
\* Number-to-string conversion of a non-negative integer (the string
\* concatenation 'RPT' + Date.now(), and the digits toFixed prints)
Digits(n) ==
    IF n < 10 THEN <<DigitChars[n + 1]>>
    ELSE Digits(n \div 10) \o <<DigitChars[(n % 10) + 1]>>

RECURSIVE Pow10(_)
Pow10(k) == IF k = 0 THEN 1 ELSE 10 * Pow10(k - 1)

RECURSIVE ZeroPad(_, _)
\* s left-padded with "0" to width w
ZeroPad(s, w) == IF Len(s) >= w THEN s ELSE ZeroPad(<<"0">> \o s, w)

\* Number.prototype.toFixed(f) of the number x * 1e-7, f <= 7: the integer n
\* with n / 10^f nearest to the number, the larger n on a tie; a negative
\* number prints "-" and the digits of its absolute value
ToFixed(x, f) ==
    LET a    == IF x < 0 THEN -x ELSE x
        unit == Pow10(7 - f)
        n    == (2 * a + unit) \div (2 * unit)
        ip   == n \div Pow10(f)
        fp   == n % Pow10(f)
        sign == IF x < 0 THEN <<"-">> ELSE <<>>
    IN  sign \o Digits(ip) \o (IF f = 0 THEN <<>> ELSE <<".">> \o ZeroPad(Digits(fp), f))

\* String.prototype.startsWith
StartsWith(s, p) == Len(s) >= Len(p) /\ SubSeq(s, 1, Len(p)) = p

(***************************************************************************)
(* Inputs the environment can supply.                                      *)
(***************************************************************************)
\* Click positions (e.latlng), in 1e-7 degrees: the default map centre with a
\* seventh decimal that rounds down and one that is a tie, and a point just
\* south-east of the origin whose latitude is a tie
Coords ==
    { [lat |-> 407128004, lng |-> -740060005],
      [lat |-> -78125, lng |-> 15] }

\* The text controls of #report-form that handleReportSubmission reads
FieldNames ==
    {"issueType", "description", "location",
     "reporterName", "reporterEmail", "reporterPhone"}

\* The controls the user of this model types into, and what is typed; the
\* other controls keep their default value
TypedFields == {"description"}
TypedValues == { <<"x">> }

ImagePng == <<"i", "m", "a", "g", "e", "/", "p", "n", "g">>
ImageJpeg == <<"i", "m", "a", "g", "e", "/", "j", "p", "e", "g">>
ApplicationPdf ==
    <<"a", "p", "p", "l", "i", "c", "a", "t", "i", "o", "n", "/", "p", "d", "f">>

FilePng == [name |-> "a.png", type |-> ImagePng]
FileJpg == [name |-> "b.jpg", type |-> ImageJpeg]
FilePdf == [name |-> "c.pdf", type |-> ApplicationPdf]
FileNames == {"a.png", "b.jpg", "c.pdf"}

\* File lists a user can choose in the photo input
Selections == { <<FilePng, FilePdf>>, <<FileJpg>> }

\* HTTP statuses the endpoints answer with
Statuses == {200, 500}

\* Identifiers the server assigns
ServerIds == { <<"R", "P", "T", "4", "2">> }

\* JSON bodies of a 2xx answer to the POST: an object with, or without, a
\* reportId
JsonBodies ==
    { [reportId |-> Some(id)] : id \in ServerIds } \cup { [reportId |-> Null] }

\* Values of Date.now() (milliseconds)
Times == {10}

\* Bodies of a 2xx answer of the stats endpoint
ServerStats == { [total |-> 12, pending |-> 5, inProgress |-> 0, resolved |-> 7] }

\* Text typed into the search box
SearchTerms == { <<"p", " ", "1">> }

\* Bodies of a 2xx answer of the search endpoint: arrays of reports
ServerReport ==
    [id |-> <<"R", "P", "T", "7">>,
     issueType |-> <<"s", "t", "r", "e", "e", "t", "-", "l", "i", "g", "h", "t", "-", "o", "u", "t">>,
     description |-> "Lamp is dark",
     location |-> "Elm Street",
     status |-> <<"p", "e", "n", "d", "i", "n", "g">>,
     timestamp |-> "2024-02-01T08:00:00Z",
     lastUpdate |-> Null]
SearchResults == { <<>>, <<ServerReport>> }

\* The navigation links of the page: each href with the id of the content
\* section it names
NavTargets ==
    { <<<<"#", "h", "o", "m", "e">>, <<"h", "o", "m", "e", "-", "s", "e", "c", "t", "i", "o", "n">>>>,
      <<<<"#", "r", "e", "p", "o", "r", "t">>, <<"r", "e", "p", "o", "r", "t", "-", "s", "e", "c", "t", "i", "o", "n">>>>,
      <<<<"#", "d", "a", "s", "h", "b", "o", "a", "r", "d">>, <<"d", "a", "s", "h", "b", "o", "a", "r", "d", "-", "s", "e", "c", "t", "i", "o", "n">>>> }
NavHrefs == { t[1] : t \in NavTargets }

\* The elements of class "section", and the one shown when the page loads
SectionIds == { t[2] : t \in NavTargets }
HomeSection == <<"h", "o", "m", "e", "-", "s", "e", "c", "t", "i", "o", "n">>
ReportSection == <<"r", "e", "p", "o", "r", "t", "-", "s", "e", "c", "t", "i", "o", "n">>

\* Positions the browser reports for the user, in 1e-7 degrees
Positions == { [lat |-> 515074000, lng |-> -1278000] }

RPT == <<"R", "P", "T">>
AlertText == "Error submitting report. Please try again."

(***************************************************************************)
(* State.                                                                  *)
(***************************************************************************)
VARIABLES
    layers,            \* marker layers on the Leaflet map
    marker,            \* global `marker`: the marker object created last
    selectedLocation,  \* global `selectedLocation`
    form,              \* value of every text control of #report-form
    files,             \* form.photo.files
    reading,           \* FileReaders loading, per file name
    previews,          \* children of #photo-preview, in document order
    modalVisible,      \* #success-modal lacks the class "hidden"
    reportIdText,      \* textContent of #report-id
    reqs,              \* one entry per run of handleReportSubmission
    posts,             \* POST requests handed to fetch
    dashPc,            \* where loadDashboardData stands
    dashboard,         \* textContent of the four dashboard counts
    searchInput,       \* value of #search-input
    searches,          \* one entry per run of searchReports that fetched
    reportsList,       \* children of #reports-list, in document order
    hidden,            \* the content sections that carry the class "hidden"
    mapView,           \* centre and zoom of the map
    geoPc,             \* where getCurrentPosition stands
    output,            \* what the step just taken showed or sent
    event              \* the handler or continuation that ran last

mapVars == <<layers, marker, selectedLocation>>
formVars == <<form, files>>
photoVars == <<reading, previews>>
modalVars == <<modalVisible, reportIdText>>
subVars == <<reqs, posts>>
dashVars == <<dashPc, dashboard>>
searchVars == <<searchInput, searches, reportsList>>
shellVars == <<hidden, mapView, geoPc>>
pageVars == <<dashVars, searchVars, shellVars>>
reportVars == <<mapVars, formVars, photoVars, modalVars, subVars>>
vars == <<reportVars, pageVars, output, event>>

\* The elements updateDashboard writes
DashFields == {"total-reports", "pending-reports", "in-progress-reports", "resolved-reports"}

\* A step that raises no alert and issues no request
Silent == [alert |-> Null, post |-> Null, get |-> Null]

\* Default value of a form control, restored by form.reset()
DefaultValue(f) == <<>>

FormEmpty == \A f \in FieldNames : form[f] = <<>>

Init ==
    /\ layers = {}
    /\ marker = Null
    /\ selectedLocation = Null
    /\ form = [f \in FieldNames |-> DefaultValue(f)]
    /\ files = <<>>
    /\ reading = [n \in FileNames |-> 0]
    /\ previews = <<>>
    /\ modalVisible = FALSE
    /\ reportIdText = <<>>
    /\ reqs = <<>>
    /\ posts = 0
    /\ dashPc = "fetching"
    /\ dashboard = [k \in DashFields |-> Null]
    /\ searchInput = <<>>
    /\ searches = <<>>
    /\ reportsList = <<>>
    /\ hidden = SectionIds \ {HomeSection}
    /\ mapView = [center |-> [lat |-> 407128000, lng |-> -740060000], zoom |-> 13]
    /\ geoPc = "asking"
    /\ output = Silent
    /\ event = [op |-> "load"]

(***************************************************************************)
(* Map click handler.                                                      *)
(***************************************************************************)
\* map.removeLayer(m): a layer that is not on the map is left alone
RemoveLayer(ls, m) == ls \ m

\* Identity of a newly constructed marker object: one no live marker has
FreshId ==
    LET used == { m.id : m \in layers \cup marker }
    IN  CHOOSE n \in 0..Cardinality(used) :
            n \notin used /\ \A k \in 0..(n - 1) : k \in used

LocationText(c) == ToFixed(c.lat, 6) \o <<",", " ">> \o ToFixed(c.lng, 6)

\* The click handler as it would be without lines 49-51
MapClickAt_keepsOldMarker(c) ==
    LET m == [id |-> FreshId, lat |-> c.lat, lng |-> c.lng]
    IN  /\ layers' = layers \cup {m}
        /\ marker' = Some(m)
        /\ selectedLocation' = Some([lat |-> c.lat, lng |-> c.lng])
        /\ form' = [form EXCEPT !["location"] = LocationText(c)]
        /\ output' = Silent
        /\ event' = [op |-> "click", at |-> c]
        /\ UNCHANGED <<files, photoVars, modalVars, subVars, pageVars>>

\* The click handler as it would be without line 56
MapClickAt_dropsSelection(c) ==
    LET cleared == IF marker # Null THEN RemoveLayer(layers, marker) ELSE layers
        m == [id |-> FreshId, lat |-> c.lat, lng |-> c.lng]
    IN  /\ layers' = cleared \cup {m}
        /\ marker' = Some(m)
        /\ selectedLocation' = selectedLocation
        /\ form' = [form EXCEPT !["location"] = LocationText(c)]
        /\ output' = Silent
        /\ event' = [op |-> "click", at |-> c]
        /\ UNCHANGED <<files, photoVars, modalVars, subVars, pageVars>>

MapClickAt(c) ==
    LET cleared == IF marker # Null THEN RemoveLayer(layers, marker) ELSE layers
        m == [id |-> FreshId, lat |-> c.lat, lng |-> c.lng]
    IN  /\ layers' = cleared \cup {m}
        /\ marker' = Some(m)
        /\ selectedLocation' = Some([lat |-> c.lat, lng |-> c.lng])
        /\ form' = [form EXCEPT !["location"] = LocationText(c)]
        /\ output' = Silent
        /\ event' = [op |-> "click", at |-> c]
        /\ UNCHANGED <<files, photoVars, modalVars, subVars, pageVars>>

MapClick == \E c \in Coords : MapClickAt(c)

(***************************************************************************)
(* The user edits a text control of the form.                              *)
(***************************************************************************)
TypeInto(f, v) ==
    /\ form[f] # v
    /\ form' = [form EXCEPT ![f] = v]
    /\ output' = Silent
    /\ event' = [op |-> "input"]
    /\ UNCHANGED <<mapVars, files, photoVars, modalVars, subVars, pageVars>>

TypeField == \E f \in TypedFields, v \in TypedValues : TypeInto(f, v)

(***************************************************************************)
(* Photo preview.                                                          *)
(***************************************************************************)
IsImage(file) == StartsWith(file.type, <<"i", "m", "a", "g", "e", "/">>)

ImagesOf(sel) == SelectSeq(sel, IsImage)

RECURSIVE StartReads(_, _)
\* reader.readAsDataURL(file) for every file of imgs
StartReads(rd, imgs) ==
    IF imgs = <<>> THEN rd
    ELSE StartReads([rd EXCEPT ![Head(imgs).name] = @ + 1], Tail(imgs))

RECURSIVE SumOver(_, _)
SumOver(fn, S) ==
    IF S = {} THEN 0
    ELSE LET x == CHOOSE y \in S : TRUE IN fn[x] + SumOver(fn, S \ {x})

ReadsOutstanding == SumOver(reading, FileNames)

HandlePhotoPreview(sel) ==
    /\ ReadsOutstanding + Len(ImagesOf(sel)) <= MaxReads
    /\ files' = sel
    /\ previews' = <<>>
    /\ reading' = StartReads(reading, ImagesOf(sel))
    /\ output' = Silent
    /\ event' = [op |-> "change"]
    /\ UNCHANGED <<mapVars, form, modalVars, subVars, pageVars>>

\* The change event fires when the chosen file list differs
PhotoChange == \E sel \in Selections : sel # files /\ HandlePhotoPreview(sel)

\* reader.onload: the image is appended to the preview container
ReaderOnload(n) ==
    /\ reading[n] > 0
    /\ reading' = [reading EXCEPT ![n] = @ - 1]
    /\ previews' = Append(previews, n)
    /\ output' = Silent
    /\ event' = [op |-> "onload"]
    /\ UNCHANGED <<mapVars, formVars, modalVars, subVars, pageVars>>

ReadLoad == \E n \in FileNames : ReaderOnload(n)

(***************************************************************************)
(* Report submission.                                                      *)
(***************************************************************************)
ResponseOk(status) == status \in 200..299

\* reportData as it would be without line 119
ReportData_withoutCoordinates ==
    [issueType |-> form["issueType"],
     description |-> form["description"],
     location |-> form["location"],
     coordinates |-> Null,
     reporterName |-> form["reporterName"],
     reporterEmail |-> form["reporterEmail"],
     reporterPhone |-> form["reporterPhone"],
     status |-> "pending"]

\* reportData, without the timestamp, which nothing reads back
ReportData ==
    [issueType |-> form["issueType"],
     description |-> form["description"],
     location |-> form["location"],
     coordinates |-> selectedLocation,
     reporterName |-> form["reporterName"],
     reporterEmail |-> form["reporterEmail"],
     reporterPhone |-> form["reporterPhone"],
     status |-> "pending"]

\* The multipart body as it would be if the loop at 127-131 skipped the files
\* that are not images
FormDataOf_imagesOnly == [photos |-> ImagesOf(files), reportData |-> ReportData]

\* The multipart body: one photos part per selected file, then reportData
FormDataOf == [photos |-> files, reportData |-> ReportData]

\* Lines 108-139: the handler up to its await of fetch
HandleReportSubmission ==
    /\ Len(reqs) < MaxSubmits
    /\ reqs' = Append(reqs, "fetching")
    /\ posts' = posts + 1
    /\ output' = [Silent EXCEPT !.post = Some(FormDataOf)]
    /\ event' = [op |-> "submit", req |-> Len(reqs) + 1]
    /\ UNCHANGED <<mapVars, formVars, photoVars, modalVars, pageVars>>

Submit == HandleReportSubmission

\* showSuccessModal as it would be without line 164
ShowSuccessModal_keepsText(id) ==
    /\ reportIdText' = reportIdText
    /\ modalVisible' = TRUE

\* showSuccessModal(reportId); an undefined reportId is set as null, the
\* empty text
ShowSuccessModal(id) ==
    /\ reportIdText' = (IF id = Null THEN <<>> ELSE The(id))
    /\ modalVisible' = TRUE

\* form.reset(): every control back to its default, the file input emptied
FormReset ==
    /\ form' = [f \in FieldNames |-> DefaultValue(f)]
    /\ files' = <<>>

\* The catch block as it would be if it cleared the marker like the ok branch
CatchBlock_removesMarker(i, t) ==
    /\ ShowSuccessModal(Some(RPT \o Digits(t)))
    /\ FormReset
    /\ previews' = <<>>
    /\ layers' = (IF marker # Null THEN RemoveLayer(layers, marker) ELSE layers)
    /\ reqs' = [reqs EXCEPT ![i] = "done"]
    /\ output' = Silent
    /\ UNCHANGED <<marker, selectedLocation, reading, posts, pageVars>>

\* Lines 152-159: the catch block
CatchBlock(i, t) ==
    /\ ShowSuccessModal(Some(RPT \o Digits(t)))
    /\ FormReset
    /\ previews' = <<>>
    /\ reqs' = [reqs EXCEPT ![i] = "done"]
    /\ output' = Silent
    /\ UNCHANGED <<mapVars, reading, posts, pageVars>>

\* The not-ok branch as it would be if it sent the request again
NotOkBranch_retries(i) ==
    /\ output' = [Silent EXCEPT !.alert = Some(AlertText), !.post = Some(FormDataOf)]
    /\ posts' = posts + 1
    /\ reqs' = [reqs EXCEPT ![i] = "done"]
    /\ UNCHANGED <<mapVars, formVars, photoVars, modalVars, pageVars>>

\* The not-ok branch as it would be if it reset the form after the alert
NotOkBranch_resets(i) ==
    /\ output' = [Silent EXCEPT !.alert = Some(AlertText)]
    /\ FormReset
    /\ reqs' = [reqs EXCEPT ![i] = "done"]
    /\ UNCHANGED <<mapVars, photoVars, modalVars, posts, pageVars>>

\* The not-ok branch as it would be without line 150
NotOkBranch_silent(i) ==
    /\ output' = Silent
    /\ reqs' = [reqs EXCEPT ![i] = "done"]
    /\ UNCHANGED <<mapVars, formVars, photoVars, modalVars, posts, pageVars>>

\* Lines 149-151: the answer is not ok
NotOkBranch(i) ==
    /\ output' = [Silent EXCEPT !.alert = Some(AlertText)]
    /\ reqs' = [reqs EXCEPT ![i] = "done"]
    /\ UNCHANGED <<mapVars, formVars, photoVars, modalVars, posts, pageVars>>

\* Line 141, the answer is ok: the handler awaits response.json()
AwaitJson(i) ==
    /\ reqs' = [reqs EXCEPT ![i] = "parsing"]
    /\ output' = Silent
    /\ UNCHANGED <<mapVars, formVars, photoVars, modalVars, posts, pageVars>>

\* fetch resolves with a response of this status
FetchResolves(i, status) ==
    /\ reqs[i] = "fetching"
    /\ event' = [op |-> "response", req |-> i, status |-> status]
    /\ IF ResponseOk(status) THEN AwaitJson(i) ELSE NotOkBranch(i)

FetchResolve == \E i \in DOMAIN reqs, s \in Statuses : FetchResolves(i, s)

\* fetch rejects: the request could not complete
FetchRejects(i, t) ==
    /\ reqs[i] = "fetching"
    /\ event' = [op |-> "rejected", req |-> i, now |-> t]
    /\ CatchBlock(i, t)

FetchReject == \E i \in DOMAIN reqs, t \in Times : FetchRejects(i, t)

\* The ok branch as it would be without lines 146-148
SuccessBranch_keepsMarker(i, result) ==
    /\ ShowSuccessModal(result.reportId)
    /\ FormReset
    /\ previews' = <<>>
    /\ reqs' = [reqs EXCEPT ![i] = "done"]
    /\ output' = Silent
    /\ UNCHANGED <<mapVars, reading, posts, pageVars>>

\* Lines 142-148: response.json() resolved with result
SuccessBranch(i, result) ==
    /\ ShowSuccessModal(result.reportId)
    /\ FormReset
    /\ previews' = <<>>
    /\ layers' = (IF marker # Null THEN RemoveLayer(layers, marker) ELSE layers)
    /\ reqs' = [reqs EXCEPT ![i] = "done"]
    /\ output' = Silent
    /\ UNCHANGED <<marker, selectedLocation, reading, posts, pageVars>>

JsonResolves(i, result) ==
    /\ reqs[i] = "parsing"
    /\ event' = [op |-> "parsed", req |-> i, result |-> result]
    /\ SuccessBranch(i, result)

JsonResolve == \E i \in DOMAIN reqs, b \in JsonBodies : JsonResolves(i, b)

\* response.json() rejects: the body is not JSON
JsonRejects(i, t) ==
    /\ reqs[i] = "parsing"
    /\ event' = [op |-> "unparsable", req |-> i, now |-> t]
    /\ CatchBlock(i, t)

JsonReject == \E i \in DOMAIN reqs, t \in Times : JsonRejects(i, t)

\* closeModal
CloseModal ==
    /\ modalVisible' = FALSE
    /\ output' = Silent
    /\ event' = [op |-> "close"]
    /\ UNCHANGED <<mapVars, formVars, photoVars, reportIdText, subVars, pageVars>>

(***************************************************************************)
(* Dashboard.                                                              *)
(***************************************************************************)
\* updateDashboard(stats): each count is written as its decimal text
UpdateDashboard(stats) ==
    dashboard' =
        [k \in DashFields |->
            Some(Digits(CASE k = "total-reports" -> stats.total
                          [] k = "pending-reports" -> stats.pending
                          [] k = "in-progress-reports" -> stats.inProgress
                          [] k = "resolved-reports" -> stats.resolved))]

\* Lines 233-238: the demo snapshot
DemoStats == [total |-> 156, pending |-> 23, inProgress |-> 45, resolved |-> 88]

\* Lines 230-239: the catch block of loadDashboardData
DashCatch ==
    /\ UpdateDashboard(DemoStats)
    /\ dashPc' = "done"

\* fetch('/api/reports/stats') resolves: an ok answer is parsed, any other
\* answer ends the function
DashFetchResolves(status) ==
    /\ dashPc = "fetching"
    /\ dashPc' = (IF ResponseOk(status) THEN "parsing" ELSE "done")
    /\ event' = [op |-> "stats_response", status |-> status]
    /\ output' = Silent
    /\ UNCHANGED <<dashboard, searchVars, shellVars, reportVars>>

DashFetchResolve == \E s \in Statuses : DashFetchResolves(s)

DashFetchReject ==
    /\ dashPc = "fetching"
    /\ DashCatch
    /\ event' = [op |-> "stats_rejected"]
    /\ output' = Silent
    /\ UNCHANGED <<searchVars, shellVars, reportVars>>

DashJsonResolves(stats) ==
    /\ dashPc = "parsing"
    /\ UpdateDashboard(stats)
    /\ dashPc' = "done"
    /\ event' = [op |-> "stats_parsed", stats |-> stats]
    /\ output' = Silent
    /\ UNCHANGED <<searchVars, shellVars, reportVars>>

DashJsonResolve == \E st \in ServerStats : DashJsonResolves(st)

DashJsonReject ==
    /\ dashPc = "parsing"
    /\ DashCatch
    /\ event' = [op |-> "stats_unparsable"]
    /\ output' = Silent
    /\ UNCHANGED <<searchVars, shellVars, reportVars>>

(***************************************************************************)
(* Report search and listing.                                              *)
(***************************************************************************)
Lowers ==
    <<"a", "b", "c", "d", "e", "f", "g", "h", "i", "j", "k", "l", "m", "n", "o", "p", "q", "r", "s", "t", "u", "v", "w", "x", "y", "z">>
Uppers ==
    <<"A", "B", "C", "D", "E", "F", "G", "H", "I", "J", "K", "L", "M", "N", "O", "P", "Q", "R", "S", "T", "U", "V", "W", "X", "Y", "Z">>

UpperChar(ch) ==
    IF \E k \in DOMAIN Lowers : Lowers[k] = ch
    THEN Uppers[CHOOSE k \in DOMAIN Lowers : Lowers[k] = ch]
    ELSE ch

\* String.prototype.toUpperCase
ToUpperCase(str) == [k \in DOMAIN str |-> UpperChar(str[k])]

\* String.prototype.replace with a one-character string pattern: the first
\* occurrence only
ReplaceFirst(str, ch, by) ==
    IF \E k \in DOMAIN str : str[k] = ch
    THEN LET first == CHOOSE k \in DOMAIN str :
                          str[k] = ch /\ \A j \in 1..(k - 1) : str[j] # ch
         IN  [str EXCEPT ![first] = by]
    ELSE str

\* encodeURIComponent over letters, digits and the space
EncodeURIComponent(str) ==
    IF str = <<>> THEN <<>>
    ELSE LET enc(ch) == IF ch = " " THEN <<"%", "2", "0">> ELSE <<ch>>
             RECURSIVE go(_)
             go(r) == IF r = <<>> THEN <<>> ELSE enc(Head(r)) \o go(Tail(r))
         IN  go(str)

ReportIdLabel == <<"R", "e", "p", "o", "r", "t", " ", "I", "D", ":", " ">>

\* createReportElement: the text of the element's parts
CreateReportElement(report) ==
    [idText |-> ReportIdLabel \o report.id,
     statusClass |-> report.status,
     statusText |-> ToUpperCase(report.status),
     heading |-> ToUpperCase(ReplaceFirst(report.issueType, "-", " ")),
     location |-> report.location,
     description |-> report.description,
     reported |-> [localeDateOf |-> report.timestamp],
     lastUpdate |-> report.lastUpdate]

\* displayReports: the list is emptied, then one element per report appended
DisplayReports(reports) ==
    reportsList' = [k \in DOMAIN reports |-> CreateReportElement(reports[k])]

\* Lines 252-271
DemoReports ==
    << [id |-> <<"R", "P", "T", "1", "2", "3", "4", "5", "6", "7", "8", "9", "0">>,
        issueType |-> <<"r", "o", "a", "d", "-", "d", "a", "m", "a", "g", "e">>,
        description |-> "Large pothole on Main Street causing traffic issues",
        location |-> "Main Street, Downtown",
        status |-> <<"i", "n", "-", "p", "r", "o", "g", "r", "e", "s", "s">>,
        timestamp |-> "2024-01-15T10:30:00Z",
        lastUpdate |-> Some("Work crew assigned, repair scheduled for next week")],
       [id |-> <<"R", "P", "T", "1", "2", "3", "4", "5", "6", "7", "8", "9", "1">>,
        issueType |-> <<"w", "a", "t", "e", "r", "-", "l", "e", "a", "k">>,
        description |-> "Water leak near the park entrance",
        location |-> "Central Park Entrance",
        status |-> <<"r", "e", "s", "o", "l", "v", "e", "d">>,
        timestamp |-> "2024-01-10T14:20:00Z",
        lastUpdate |-> Some("Leak repaired successfully")] >>

DisplayDemoReports == DisplayReports(DemoReports)

\* The user edits the search box
TypeSearchTerm(v) ==
    /\ searchInput # v
    /\ searchInput' = v
    /\ event' = [op |-> "search_input"]
    /\ output' = Silent
    /\ UNCHANGED <<searches, reportsList, dashVars, shellVars, reportVars>>

TypeSearch == \E v \in SearchTerms \cup {<<>>} : TypeSearchTerm(v)

SearchUrl(term) ==
    [path |-> "/api/reports/search", q |-> EncodeURIComponent(term)]

\* searchReports as it would be without line 176
SearchReports_alwaysFetches ==
    /\ event' = [op |-> "search", term |-> searchInput]
    /\ Len(searches) < MaxSearches
    /\ searches' = Append(searches, "fetching")
    /\ output' = [Silent EXCEPT !.get = Some(SearchUrl(searchInput))]
    /\ UNCHANGED <<searchInput, reportsList, dashVars, shellVars, reportVars>>

\* Lines 174-179: searchReports up to its await of fetch
SearchReports ==
    /\ event' = [op |-> "search", term |-> searchInput]
    /\ IF searchInput = <<>>
       THEN /\ output' = Silent
            /\ UNCHANGED searches
       ELSE /\ Len(searches) < MaxSearches
            /\ searches' = Append(searches, "fetching")
            /\ output' = [Silent EXCEPT !.get = Some(SearchUrl(searchInput))]
    /\ UNCHANGED <<searchInput, reportsList, dashVars, shellVars, reportVars>>

\* The search fetch resolves: an ok answer is parsed, any other answer ends
\* the function
SearchFetchResolves(i, status) ==
    /\ searches[i] = "fetching"
    /\ searches' = [searches EXCEPT ![i] = IF ResponseOk(status) THEN "parsing" ELSE "done"]
    /\ event' = [op |-> "search_response", req |-> i, status |-> status]
    /\ output' = Silent
    /\ UNCHANGED <<searchInput, reportsList, dashVars, shellVars, reportVars>>

SearchFetchResolve == \E i \in DOMAIN searches, s \in Statuses : SearchFetchResolves(i, s)

\* Lines 184-188: the catch block of searchReports
SearchCatch(i) ==
    /\ DisplayDemoReports
    /\ searches' = [searches EXCEPT ![i] = "done"]
    /\ output' = Silent
    /\ UNCHANGED <<searchInput, dashVars, shellVars, reportVars>>

SearchFetchRejects(i) ==
    /\ searches[i] = "fetching"
    /\ event' = [op |-> "search_rejected", req |-> i]
    /\ SearchCatch(i)

SearchFetchReject == \E i \in DOMAIN searches : SearchFetchRejects(i)

SearchJsonResolves(i, reports) ==
    /\ searches[i] = "parsing"
    /\ DisplayReports(reports)
    /\ searches' = [searches EXCEPT ![i] = "done"]
    /\ event' = [op |-> "search_parsed", req |-> i, reports |-> reports]
    /\ output' = Silent
    /\ UNCHANGED <<searchInput, dashVars, shellVars, reportVars>>

SearchJsonResolve ==
    \E i \in DOMAIN searches, r \in SearchResults : SearchJsonResolves(i, r)

SearchJsonRejects(i) ==
    /\ searches[i] = "parsing"
    /\ event' = [op |-> "search_unparsable", req |-> i]
    /\ SearchCatch(i)

SearchJsonReject == \E i \in DOMAIN searches : SearchJsonRejects(i)

(***************************************************************************)
(* Navigation and geolocation.                                             *)
(***************************************************************************)
\* The navigation handler as it would be without lines 76-78
HandleNavigation_keepsOthers(href) ==
    LET target == SubSeq(href, 2, Len(href))
        id     == target \o <<"-", "s", "e", "c", "t", "i", "o", "n">>
    IN  /\ hidden' = (IF id \in SectionIds THEN hidden \ {id} ELSE hidden)
        /\ event' = [op |-> "navigate", href |-> href]
        /\ output' = Silent
        /\ UNCHANGED <<mapView, geoPc, dashVars, searchVars, reportVars>>

\* handleNavigation: every section is hidden, then the section named by the
\* link, when there is one, is shown
HandleNavigation(href) ==
    LET target == SubSeq(href, 2, Len(href))
        id     == target \o <<"-", "s", "e", "c", "t", "i", "o", "n">>
    IN  /\ hidden' = (IF id \in SectionIds THEN SectionIds \ {id} ELSE SectionIds)
        /\ event' = [op |-> "navigate", href |-> href]
        /\ output' = Silent
        /\ UNCHANGED <<mapView, geoPc, dashVars, searchVars, reportVars>>

Navigate == \E h \in NavHrefs : HandleNavigation(h)

\* showReportForm
ShowReportForm ==
    /\ hidden' = hidden \ {ReportSection}
    /\ event' = [op |-> "show_form"]
    /\ output' = Silent
    /\ UNCHANGED <<mapView, geoPc, dashVars, searchVars, reportVars>>

\* The position callback as it would be if it also selected the position
GeoSucceeds_selectsPosition(pos) ==
    /\ geoPc = "asking"
    /\ geoPc' = "done"
    /\ mapView' = [center |-> [lat |-> pos.lat, lng |-> pos.lng], zoom |-> 15]
    /\ selectedLocation' = Some([lat |-> pos.lat, lng |-> pos.lng])
    /\ event' = [op |-> "position"]
    /\ output' = Silent
    /\ UNCHANGED <<hidden, dashVars, searchVars, layers, marker, formVars,
                   photoVars, modalVars, subVars>>

\* Lines 40-44: the position callback
GeoSucceeds(pos) ==
    /\ geoPc = "asking"
    /\ geoPc' = "done"
    /\ mapView' = [center |-> [lat |-> pos.lat, lng |-> pos.lng], zoom |-> 15]
    /\ event' = [op |-> "position"]
    /\ output' = Silent
    /\ UNCHANGED <<hidden, dashVars, searchVars, reportVars>>

GeoSuccess == \E pos \in Positions : GeoSucceeds(pos)

\* Access is denied or the position cannot be found: getCurrentPosition was
\* given no error callback, so nothing runs
GeoFailure ==
    /\ geoPc = "asking"
    /\ geoPc' = "done"
    /\ event' = [op |-> "no_position"]
    /\ output' = Silent
    /\ UNCHANGED <<hidden, mapView, dashVars, searchVars, reportVars>>

(***************************************************************************)
(* Specifications.                                                         *)
(***************************************************************************)
\* The report form: map, photos, submission, modal
Next ==
    \/ MapClick
    \/ TypeField
    \/ PhotoChange
    \/ ReadLoad
    \/ Submit
    \/ FetchResolve
    \/ FetchReject
    \/ JsonResolve
    \/ JsonReject
    \/ CloseModal

Spec == Init /\ [][Next]_vars

\* The dashboard, the report search, navigation and geolocation
NextPage ==
    \/ Navigate
    \/ ShowReportForm
    \/ GeoSuccess
    \/ GeoFailure
    \/ DashFetchResolve
    \/ DashFetchReject
    \/ DashJsonResolve
    \/ DashJsonReject
    \/ TypeSearch
    \/ SearchReports
    \/ SearchFetchResolve
    \/ SearchFetchReject
    \/ SearchJsonResolve
    \/ SearchJsonReject

SpecPage == Init /\ [][NextPage]_vars

\* Asynchronous operations that have got under way or have been answered
FrameBusy ==
    Len(reqs) + Len(searches) + ReadsOutstanding + Len(previews)
    + (IF geoPc = "asking" THEN 0 ELSE 1)
    + (IF dashPc = "fetching" THEN 0 ELSE 1)

\* The whole page: every handler and continuation, in sessions of at most
\* MaxFrameBusy asynchronous operations
NextFrame ==
    \/ MapClick /\ FrameBusy' <= MaxFrameBusy
    \/ TypeField /\ FrameBusy' <= MaxFrameBusy
    \/ PhotoChange /\ FrameBusy' <= MaxFrameBusy
    \/ ReadLoad /\ FrameBusy' <= MaxFrameBusy
    \/ Submit /\ FrameBusy' <= MaxFrameBusy
    \/ FetchResolve /\ FrameBusy' <= MaxFrameBusy
    \/ FetchReject /\ FrameBusy' <= MaxFrameBusy
    \/ JsonResolve /\ FrameBusy' <= MaxFrameBusy
    \/ JsonReject /\ FrameBusy' <= MaxFrameBusy
    \/ CloseModal /\ FrameBusy' <= MaxFrameBusy
    \/ Navigate /\ FrameBusy' <= MaxFrameBusy
    \/ ShowReportForm /\ FrameBusy' <= MaxFrameBusy
    \/ GeoSuccess /\ FrameBusy' <= MaxFrameBusy
    \/ GeoFailure /\ FrameBusy' <= MaxFrameBusy
    \/ DashFetchResolve /\ FrameBusy' <= MaxFrameBusy
    \/ DashFetchReject /\ FrameBusy' <= MaxFrameBusy
    \/ DashJsonResolve /\ FrameBusy' <= MaxFrameBusy
    \/ DashJsonReject /\ FrameBusy' <= MaxFrameBusy
    \/ TypeSearch /\ FrameBusy' <= MaxFrameBusy
    \/ SearchReports /\ FrameBusy' <= MaxFrameBusy
    \/ SearchFetchResolve /\ FrameBusy' <= MaxFrameBusy
    \/ SearchFetchReject /\ FrameBusy' <= MaxFrameBusy
    \/ SearchJsonResolve /\ FrameBusy' <= MaxFrameBusy
    \/ SearchJsonReject /\ FrameBusy' <= MaxFrameBusy

SpecFrame == Init /\ [][NextFrame]_vars

(***************************************************************************)
(* Properties of the submission flow, checked under Spec.                  *)
(***************************************************************************)
\* The identifier the catch block makes up: RPT followed by digits only
IsPlaceholderId(text) ==
    /\ Len(text) > Len(RPT)
    /\ SubSeq(text, 1, Len(RPT)) = RPT
    /\ \A k \in (Len(RPT) + 1)..Len(text) :
           \E d \in DOMAIN DigitChars : DigitChars[d] = text[k]

\* The continuation that ran last is the ok branch, for a body with a reportId
AnsweredWithId == event.op = "parsed" /\ event.result.reportId # Null

\* C1: when the POST is answered 2xx with a body carrying a reportId, then as
\* the handler finishes the success modal is visible and shows that very
\* identifier, every form control is empty, no preview is left and no marker
\* is on the map.
C1_SuccessShowsServerIdAndClears ==
    AnsweredWithId =>
        /\ modalVisible
        /\ reportIdText = The(event.result.reportId)
        /\ FormEmpty
        /\ files = <<>>
        /\ previews = <<>>
        /\ layers = {}

\* C1 happens: a submission made after a map click was answered with RPT42
C1_Witness ==
    /\ AnsweredWithId
    /\ marker # Null
    /\ modalVisible
    /\ reportIdText = <<"R", "P", "T", "4", "2">>

\* The handler of a submission that is answered with a non-success status
\* runs in two steps: up to its await of fetch, and from the answer on
NotOkAnswered == event.op = "response" /\ ~ResponseOk(event.status)

\* C2: a POST answered with a non-success status raises the failure alert and
\* changes nothing else: neither step of the handler changes the form values,
\* the file selection, the previews, the marker, the stored selection or the
\* modal.
C2_NotOkOnlyAlerts ==
    [][ /\ NotOkAnswered' => output'.alert = Some(AlertText)
        /\ (NotOkAnswered' \/ event'.op = "submit") =>
               UNCHANGED <<form, files, previews, layers, marker, selectedLocation,
                           modalVisible, reportIdText>> ]_vars

\* C2 happens: a 500 was handled with text in the form, a file selection, a
\* preview and a marker in place, and the modal closed
C2_Witness ==
    /\ NotOkAnswered
    /\ output.alert # Null
    /\ ~FormEmpty
    /\ files # <<>>
    /\ previews # <<>>
    /\ layers # {}
    /\ ~modalVisible

\* C3: when fetch rejects, the modal is shown with RPT followed by digits, the
\* form is reset and the previews are cleared, and the markers on the map are
\* the ones that were there before.
C3_TransportFailureFakesSuccess ==
    [][ event'.op = "rejected" =>
            /\ modalVisible'
            /\ IsPlaceholderId(reportIdText')
            /\ FormEmpty'
            /\ files' = <<>>
            /\ previews' = <<>>
            /\ layers' = layers ]_vars

\* C3 happens: the request of a submission was rejected and the marker placed
\* before is still on the map
C3_Witness ==
    /\ event.op = "rejected"
    /\ modalVisible
    /\ reportIdText = RPT \o <<"1", "0">>
    /\ FormEmpty
    /\ layers # {}
    /\ marker \subseteq layers

\* The marker created last has been taken off the map: an ok submission
\* completed after the last map click
MarkerCleared == marker # Null /\ marker \cap layers = {}

\* C4: an ok submission clears the stored selection with the marker, so the
\* stored coordinate is absent until the next map click and a submission made
\* before that click carries no coordinates.
C4_SuccessClearsSelection ==
    /\ MarkerCleared => selectedLocation = Null
    /\ (event.op = "submit" /\ MarkerCleared) =>
           The(output.post).reportData.coordinates = Null

\* C5: the previews mirror the current file selection: every preview shown is
\* of a file in the selection, and once no read is outstanding there is one
\* preview per selected image file.
C5_PreviewsMirrorSelection ==
    /\ \A k \in DOMAIN previews : \E j \in DOMAIN files : files[j].name = previews[k]
    /\ ReadsOutstanding = 0 => Len(previews) = Len(ImagesOf(files))

\* Reading a decimal numeral back
IsDigit(ch) == \E d \in DOMAIN DigitChars : DigitChars[d] = ch
DigitOf(ch) == (CHOOSE d \in DOMAIN DigitChars : DigitChars[d] = ch) - 1

RECURSIVE NumeralValue(_)
NumeralValue(str) ==
    IF str = <<>> THEN 0
    ELSE 10 * NumeralValue(SubSeq(str, 1, Len(str) - 1)) + DigitOf(str[Len(str)])

\* text is a numeral with exactly six decimals, and no numeral with six
\* decimals is nearer to x * 1e-7 than it is
ShowsToSixDecimals(text, x) ==
    LET neg  == text # <<>> /\ text[1] = "-"
        body == IF neg THEN Tail(text) ELSE text
        dot  == Len(body) - 6
    IN  /\ dot >= 2
        /\ body[dot] = "."
        /\ \A k \in DOMAIN body : k # dot => IsDigit(body[k])
        /\ neg <=> x < 0
        /\ LET shown == NumeralValue(SubSeq(body, 1, dot - 1) \o SubSeq(body, dot + 1, Len(body)))
               size  == IF x < 0 THEN -x ELSE x
           IN  10 * shown - size \in -5..5

\* text is "<lat>, <lng>", each to six decimals
ShowsCoordinate(text, c) ==
    \E k \in DOMAIN text :
        /\ text[k] = ","
        /\ k + 2 <= Len(text)
        /\ text[k + 1] = " "
        /\ ShowsToSixDecimals(SubSeq(text, 1, k - 1), c.lat)
        /\ ShowsToSixDecimals(SubSeq(text, k + 2, Len(text)), c.lng)

\* C6: after every map click exactly one marker is on the map, at the clicked
\* coordinate; the stored selection is that coordinate and the location field
\* shows it to six decimal places.
C6_ClickLeavesOneMarkerAtClick ==
    event.op = "click" =>
        /\ Cardinality(layers) = 1
        /\ \A m \in layers : m.lat = event.at.lat /\ m.lng = event.at.lng
        /\ marker = layers
        /\ selectedLocation = Some(event.at)
        /\ ShowsCoordinate(form["location"], event.at)

\* C6 happens: a click replaced the marker of an earlier click at another
\* place, and the field shows the new place rounded
C6_Witness ==
    /\ event.op = "click"
    /\ \E m \in layers : m.id = 1
    /\ event.at = [lat |-> -78125, lng |-> 15]
    /\ form["location"] = <<"-", "0", ".", "0", "0", "7", "8", "1", "3", ",", " ", "0", ".", "0", "0", "0", "0", "0", "2">>

\* C9: every submit event issues exactly one POST and no other step issues
\* one, so the POSTs issued are as many as the submit events.
C9_OnePostPerSubmit ==
    /\ posts = Len(reqs)
    /\ event.op = "submit" <=> output.post # Null

\* C9 happens: two submissions have run to completion
C9_Witness ==
    /\ Len(reqs) = 2
    /\ posts = 2
    /\ \A i \in DOMAIN reqs : reqs[i] = "done"
    /\ event.op = "response"
    /\ output.alert # Null

\* What the modal shows of a server's answer: its identifier, or no text
ServerSupplied == ServerIds \cup { <<>> }

\* The step ends a submission whose fetch resolved with a response
EndsAnswered ==
    /\ event'.op \in {"response", "parsed", "unparsable"}
    /\ reqs[event'.req] # "done"
    /\ reqs'[event'.req] = "done"

\* C10: a submission for which a response was obtained ends either with the
\* modal showing what the server supplied or with the failure alert and no
\* reset, never with a made-up identifier.
C10_PlaceholderOnlyWithoutResponse ==
    [][ EndsAnswered =>
            \/ /\ output'.alert = Some(AlertText)
               /\ UNCHANGED <<form, files, modalVisible, reportIdText>>
            \/ /\ modalVisible'
               /\ reportIdText' \in ServerSupplied ]_vars

\* The identifier handed to showSuccessModal by the step that has just ended,
\* as the text the modal shows for it
ShownIdOf(e) ==
    IF e.op = "parsed"
    THEN (IF e.result.reportId = Null THEN <<>> ELSE The(e.result.reportId))
    ELSE RPT \o Digits(e.now)

\* C12: the success modal, once shown, stays visible until the close control
\* is used; a further show while it is visible leaves the one modal, and the
\* identifier it displays changes only in a step that shows it, to the
\* identifier that step passed.
C12_ModalStaysUntilClosed ==
    [][ /\ (modalVisible /\ ~modalVisible') => event'.op = "close"
        /\ (~modalVisible /\ modalVisible') =>
               event'.op \in {"parsed", "rejected", "unparsable"}
        /\ event'.op \in {"parsed", "rejected", "unparsable"} =>
               modalVisible' /\ reportIdText' = ShownIdOf(event')
        /\ event'.op \notin {"parsed", "rejected", "unparsable"} =>
               reportIdText' = reportIdText ]_vars

\* the modal shows the identifier made up for the second submission
C12_Witness ==
    /\ modalVisible
    /\ event.op = "rejected"
    /\ event.req = 2
    /\ reqs = <<"done", "done">>
    /\ reportIdText = RPT \o <<"1", "0">>

\* Names of the files a preview may be made for: a.png and b.jpg, not c.pdf
PreviewableNames == {"a.png", "b.jpg"}

\* C13: previews are made, and reads are started, only for files whose type
\* is an image type, while the body of a submission carries every file of
\* the current selection, image or not, in selection order.
C13_PreviewImagesAttachAll ==
    /\ \A i \in DOMAIN previews : previews[i] \in PreviewableNames
    /\ \A n \in FileNames : reading[n] > 0 => n \in PreviewableNames
    /\ event.op = "submit" => The(output.post).photos = files

\* a submission of a picture and a document, of which only the picture is
\* previewed
C13_Witness ==
    /\ event.op = "submit"
    /\ The(output.post).photos = <<FilePng, FilePdf>>
    /\ previews = <<"a.png">>

\* C16: at most one marker is on the map, and a marker on the map is the one
\* the page holds and stands at the stored selection.
C16_OneMarkerAtSelection ==
    /\ Cardinality(layers) <= 1
    /\ \A m \in layers :
           /\ marker = {m}
           /\ selectedLocation # Null
           /\ The(selectedLocation).lat = m.lat
           /\ The(selectedLocation).lng = m.lng

\* a marker set after an accepted submission took the earlier one off the
\* map, while a second submission is under way
C16_Witness ==
    /\ Cardinality(layers) = 1
    /\ event.op = "click"
    /\ reqs = <<"done", "fetching">>
    /\ modalVisible
    /\ reportIdText = <<"R", "P", "T", "4", "2">>

\* C17: the body of a POST is built from the page as it is when the submit
\* event fires: its coordinates are the stored selection of that moment
\* (none when the map was never clicked), its fields are the values of the
\* form, its status is "pending"; a map click or an edit made afterwards,
\* with the POST under way, sends nothing and leaves the requests as they
\* are.
C17_PayloadIsSnapshotAtSubmit ==
    [][ /\ event'.op = "submit" =>
               LET data == The(output'.post).reportData
               IN  /\ data.coordinates = selectedLocation
                   /\ data.status = "pending"
                   /\ data.location = form["location"]
                   /\ data.description = form["description"]
        /\ event'.op \in {"click", "input"} =>
               /\ output'.post = Null
               /\ posts' = posts
               /\ reqs' = reqs ]_vars

\* the map is clicked while the only POST is under way
C17_Witness ==
    /\ event.op = "click"
    /\ reqs = <<"fetching">>
    /\ posts = 1
    /\ selectedLocation = Some(event.at)

\* A submission ends in the step that takes its request to "done"
EndsSubmission ==
    \E i \in DOMAIN reqs : reqs[i] # "done" /\ reqs'[i] = "done"

\* C18: the step that ends a submission, after an answer of any status or a
\* failure of the request, either raises the alert and leaves the modal and
\* the form alone, or raises no alert, shows the modal and resets the form;
\* a step that ends no submission raises no alert.
C18_OneOutcomePerSubmission ==
    [][ /\ EndsSubmission =>
               \/ /\ output'.alert # Null
                  /\ UNCHANGED <<modalVisible, reportIdText, form, files>>
               \/ /\ output'.alert = Null
                  /\ modalVisible'
                  /\ reportIdText' = ShownIdOf(event')
                  /\ FormEmpty'
                  /\ files' = <<>>
        /\ ~EndsSubmission => output'.alert = Null ]_vars

\* the alert for a refused second submission, raised with the form still
\* filled in and the modal of the first still up
C18_Witness ==
    /\ event.op = "response"
    /\ event.req = 2
    /\ output.alert # Null
    /\ form["description"] = <<"x">>
    /\ modalVisible
    /\ reqs = <<"done", "done">>

(***************************************************************************)
(* Properties of the page around the form, checked under SpecPage.         *)
(***************************************************************************)
FallbackCounts ==
    [k \in DashFields |->
        CASE k = "total-reports" -> <<"1", "5", "6">>
          [] k = "pending-reports" -> <<"2", "3">>
          [] k = "in-progress-reports" -> <<"4", "5">>
          [] k = "resolved-reports" -> <<"8", "8">>]

StatsFetchFailed ==
    \/ event.op = "stats_rejected"
    \/ event.op = "stats_response" /\ ~ResponseOk(event.status)

\* C7: when the stats fetch fails or is answered with a non-success status
\* the four counts show 156, 23, 45 and 88, and whatever the outcome the four
\* counts have been rendered once loadDashboardData has ended.
C7_DashboardNeverEmpty ==
    /\ StatsFetchFailed => \A k \in DashFields : dashboard[k] = Some(FallbackCounts[k])
    /\ dashPc = "done" => \A k \in DashFields : dashboard[k] # Null

SearchFailed ==
    \/ event.op = "search_rejected"
    \/ event.op = "search_response" /\ ~ResponseOk(event.status)

\* C8: when a search for a non-empty term fails, by rejection or by a
\* non-2xx answer, the list shows exactly the two demo reports.
C8_SearchFailureShowsDemo ==
    SearchFailed =>
        /\ Len(reportsList) = 2
        /\ reportsList[1].idText = ReportIdLabel \o <<"R", "P", "T", "1", "2", "3", "4", "5", "6", "7", "8", "9", "0">>
        /\ reportsList[2].idText = ReportIdLabel \o <<"R", "P", "T", "1", "2", "3", "4", "5", "6", "7", "8", "9", "1">>

Visible == SectionIds \ hidden

\* C11: after a click on a navigation link exactly one content section is
\* visible, the one the link names, and every other section is hidden,
\* whatever was visible before the click.
C11_NavigationShowsOneSection ==
    event.op = "navigate" =>
        \E t \in NavTargets : t[1] = event.href /\ Visible = {t[2]}

C11_Witness ==
    /\ event.op = "navigate"
    /\ event.href = <<"#", "d", "a", "s", "h", "b", "o", "a", "r", "d">>
    /\ Visible = {<<"d", "a", "s", "h", "b", "o", "a", "r", "d", "-", "s", "e", "c", "t", "i", "o", "n">>}

\* C14: a search with an empty search term issues no request and leaves the
\* displayed list, and the searches under way, as they were.
C14_EmptySearchIsNoOp ==
    [][ (event'.op = "search" /\ searchInput = <<>>) =>
            /\ output'.get = Null
            /\ searches' = searches
            /\ reportsList' = reportsList ]_vars

\* an empty search made while the demo reports are on display
C14_Witness ==
    /\ event.op = "search"
    /\ event.term = <<>>
    /\ output.get = Null
    /\ Len(reportsList) = 2

\* What displayReports leaves in the list for this result
Rendered(reports) == [k \in DOMAIN reports |-> CreateReportElement(reports[k])]

\* The step that has just ended completed a search
SearchCompleted ==
    \/ event.op \in {"search_parsed", "search_rejected", "search_unparsable"}
    \/ event.op = "search_response" /\ ~ResponseOk(event.status)

\* C19: the displayed list is always the whole rendering of one search result
\* or of the demo reports, and when the last of two or more searches has just
\* completed the list shows the outcome of that search: its result when it
\* was answered with one, the demo reports when it failed.
C19_ListIsLastCompletedSearch ==
    /\ \/ reportsList = Rendered(DemoReports)
       \/ \E r \in SearchResults : reportsList = Rendered(r)
    /\ ( /\ Len(searches) >= 2
         /\ \A i \in DOMAIN searches : searches[i] = "done"
         /\ SearchCompleted )
       => reportsList = (IF event.op = "search_parsed"
                         THEN Rendered(event.reports)
                         ELSE Rendered(DemoReports))

(***************************************************************************)
(* Properties of the whole page, checked under SpecFrame.                  *)
(***************************************************************************)
\* The steps of the map click handler and of the end of a submission
WritesSelection(e) == e.op = "click"
EndsSubmissionFlow(e) == e.op \in {"parsed", "rejected", "unparsable"}

\* C15: the marker, the stored selection and the location field change only
\* in a map click and at the end of a submission, and the end of a submission
\* only takes away: every other step (the position callback, a position
\* request that fails, a photo selection, the end of a file read, navigation,
\* closing the modal, the dashboard load, a search and its completion)
\* leaves all of them as they were; a position request that fails changes
\* nothing the user sees.
C15_OnlyClickAndSubmitTouchSelection ==
    [][ /\ (~WritesSelection(event') /\ ~EndsSubmissionFlow(event')) =>
               /\ UNCHANGED <<layers, marker, selectedLocation>>
               /\ form'["location"] = form["location"]
        /\ EndsSubmissionFlow(event') =>
               /\ layers' \subseteq layers
               /\ marker' = marker
               /\ selectedLocation' \in {selectedLocation, Null}
               /\ form'["location"] \in {form["location"], <<>>}
        /\ event'.op = "no_position" =>
               /\ output' = Silent
               /\ UNCHANGED <<mapView, modalVars, hidden, dashboard, reportsList,
                              form, previews>> ]_vars

\* the position callback has moved the map under a marker that stays where
\* it was set
C15_Witness ==
    /\ event.op = "position"
    /\ mapView.zoom = 15
    /\ layers # {}
    /\ marker = layers
    /\ selectedLocation # Null
    /\ form["location"] # <<>>

====
